---- MODULE Spec2Model ----
(***************************************************************************)
(* A model of the Cosmos dependency-injection container                    *)
(* (lib/Container.ts): the four maps of a Container, its public            *)
(* operations, and the recursive resolution algorithm behind make.         *)
(***************************************************************************)
EXTENDS Integers, Sequences, FiniteSets, TLC

(***************************************************************************)
(* The identifier space and the constructible types of the client program. *)
(***************************************************************************)

\* Abstract = string | symbol | Constructor: the string identifiers.
Names == {"a", "b"}

\* The classes of the client program, usable as concretes and as identifiers.
Classes == {"L", "M", "A", "B"}

\* Factory functions (arrow functions) of the client program.
Factories == {"fa", "fb"}

\* Abstract = string | symbol | Constructor: the symbol identifiers.
Tokens == {"s"}

Ids == Names \cup Tokens \cup Classes

Concretes == Classes \cup Factories

\* typeof x, for the values the model passes around.
TypeOf(x) ==
    IF x \in Classes \cup Factories THEN "function"
    ELSE IF x \in Names THEN "string"
    ELSE IF x \in Tokens THEN "symbol"
    ELSE "object"

\* Reflect.getMetadata('design:paramtypes', concrete) || []: the declared
\* constructor parameter types.  A and B declare each other (a cycle), both
\* after L; L and M declare nothing; factories carry no metadata.
ParamTypes(concrete) ==
    CASE concrete = "A" -> <<"L", "B">>
      [] concrete = "B" -> <<"L", "A">>
      [] OTHER -> <<>>

\* The identifiers a factory's body resolves through the container
\* (this.app.make(id)) before it returns its product.
FactoryNeeds(f) ==
    CASE f = "fa" -> <<"b">>
      [] f = "fb" -> <<"a">>
      [] OTHER -> <<>>

\* A prototype test that a class passes against itself.
IsPrototypeOfOrSame(sup, sub) == sup = sub \/ (sup = "L" /\ sub = "M")

\* class M extends L: sup.prototype.isPrototypeOf(sub.prototype).  The test
\* is strict: a prototype is not on its own chain.
IsPrototypeOf(sup, sub) == sup = "L" /\ sub = "M"

\* The compilation targets: under ES5 a class is emitted as a function and an
\* arrow function as a function expression; under ES2015 both are kept.
Targets == {"ES5", "ES2015"}

(***************************************************************************)
(* Bounds of the model.                                                    *)
(***************************************************************************)

\* Entries held in the bindings map, the instance cache, the aliases map and
\* the contextual map.
MaxBindings == 2
MaxInstances == 1
MaxAliases == 2
MaxContextual == 1

(***************************************************************************)
(* The client programs that drive the container, after the repository's    *)
(* two examples: "names" binds string identifiers to a class, to another   *)
(* name and to factories that resolve each other and registers aliases;    *)
(* "types" binds                                                           *)
(* classes under class identifiers and under a symbol, registers pre-built *)
(* instances, a chain of aliases and a contextual binding.  A program      *)
(* fixes the arguments of the calls.                                       *)
(***************************************************************************)

Programs == {"names", "types"}

\* bind(abstract, concrete) / singleton(abstract, concrete)
BindArgs(p) ==
    IF p = "names" THEN {<<"a", "M">>, <<"a", "fa">>, <<"b", "fb">>, <<"b", "a">>}
    ELSE {<<"a", "M">>, <<"s", "M">>, <<"L", "L">>, <<"A", "A">>, <<"B", "B">>}

\* instance(abstract, value), the value a fresh pre-built object
InstanceArgs(p) == IF p = "names" THEN {"b"} ELSE {"L", "A", "B"}

\* alias(abstract, alias)
AliasArgs(p) ==
    IF p = "names" THEN {"a", "b"} \X {"a", "b"}
    ELSE {<<"L", "b">>, <<"b", "a">>}

\* when(concrete).needs(abstract).give(implementation)
ContextualArgs(p) ==
    IF p = "names" THEN {}
    ELSE {"A"} \X {"L"} \X {"M", "a"}

\* make(abstract, parameters): no explicit arguments, or one, a value of the
\* caller's written 0 (no object the container allocates has that reference).
MakeArgs(p) ==
    IF p = "names" THEN ({"a", "b"} \X {<<>>}) \cup {<<"a", <<0>>>>}
    ELSE ({"a", "b", "L", "A", "B"} \X {<<>>}) \cup {<<"A", <<0>>>>}

\* has(abstract), isShared(abstract), getAlias(abstract)
QueryArgs(p) == IF p = "names" THEN {"a", "b"} ELSE {"L", "a"}

\* getContextualConcrete(abstract, concrete)
ContextualQueryArgs(p) ==
    IF p = "names" THEN {<<"a", "b">>}
    ELSE {<<"L", "A">>, <<"A", "L">>}

VARIABLES
    bindings,    \* Map<Abstract, {concrete, shared}>
    instances,   \* Map<Abstract, any>
    aliases,     \* Map<Abstract, Abstract>
    contextual,  \* Map<Abstract, Map<Abstract, Abstract>>
    target,      \* the compilation target of the build
    program,     \* the client program
    last,        \* the last operation called, with its outcome
    builder,     \* the builder a when(..).needs(..).give(..) chain has reached
    booted,             \* Application.booted
    bootingCallbacks,   \* Application.bootingCallbacks
    bootedCallbacks,    \* Application.bootedCallbacks
    serviceProviders,   \* Application.serviceProviders
    loadedProviders,    \* Application.loadedProviders (its keys)
    registered,  \* the provider the last register call returned
    provided,    \* how many provider objects have been constructed
    calls        \* the client code the application has invoked, in order

maps == <<bindings, instances, aliases, contextual>>

\* The fields an Application adds to a Container, with the record of what
\* it has invoked.
application == <<booted, bootingCallbacks, bootedCallbacks, serviceProviders,
                 loadedProviders, registered, provided, calls>>

vars == <<bindings, instances, aliases, contextual, target, program, last,
          builder, application>>

EmptyMap == <<>>

\* The "nothing returned" value of a call that returns no instance.
NoInstance == [ref |-> 0, of |-> "-"]

\* What is recorded of the last call: the operation, its identifier, its
\* second argument where it has one (the concrete, the alias, the explicit
\* parameters) and how it ended ("ok" or the error thrown; for has, isShared
\* and getAlias, the value returned, written as a string).
Call(op, id, arg, out) == [op |-> op, id |-> id, arg |-> arg, out |-> out]

\* The initial "last call": the construction of the container.
Constructed == Call("new", "-", <<>>, "ok")

\* No chain of when(..).needs(..).give(..) is under way.
NoBuilder == [stage |-> "none", concrete |-> "-", abstract |-> "-"]

\* new ContextualBindingBuilder(container, concrete)
ContextualBindingBuilder(concrete) ==
    [stage |-> "when", concrete |-> concrete, abstract |-> "-"]

\* A needs-builder that takes its two identifiers in the other order.
ContextualBindingNeedsBuilderSwapped(concrete, abstract) ==
    [stage |-> "needs", concrete |-> abstract, abstract |-> concrete]

\* new ContextualBindingNeedsBuilder(container, concrete, abstract)
ContextualBindingNeedsBuilder(concrete, abstract) ==
    [stage |-> "needs", concrete |-> concrete, abstract |-> abstract]

\* The client is between two statements: no fluent chain is half-way.
Idle == builder = NoBuilder

\* The "no provider" value of a call that returns no provider.
NoProvider == [class |-> "-", ref |-> 0]

\* The fields of a new Application (lines 13-33).
NewApplication ==
    /\ booted = FALSE
    /\ bootingCallbacks = <<>>
    /\ bootedCallbacks = <<>>
    /\ serviceProviders = <<>>
    /\ loadedProviders = {}
    /\ registered = NoProvider
    /\ provided = 0
    /\ calls = <<>>

Init ==
    /\ bindings = EmptyMap
    /\ instances = EmptyMap
    /\ aliases = EmptyMap
    /\ contextual = EmptyMap
    /\ target \in Targets
    /\ program \in Programs
    /\ last = Constructed
    /\ builder = NoBuilder
    /\ NewApplication

(***************************************************************************)
(* The read-only operations: getContextualConcrete, has, getAlias,         *)
(* isShared, getConcrete, isBuildable.                                     *)
(***************************************************************************)

\* What getAlias yields on an alias chain that never ends: the recursion
\* exhausts the call stack (RangeError).
Diverges == "<RangeError>"

\* The "no override" value of getContextualConcrete.
Null == "<null>"

GetContextualConcrete(abstract, concrete) ==
    IF concrete \in DOMAIN contextual /\ abstract \in DOMAIN contextual[concrete]
    THEN contextual[concrete][abstract]
    ELSE Null

\* isClass: the source text of fn starts with "class", which holds of a
\* class only when the build keeps class syntax.
IsClass(fn) == TypeOf(fn) = "function" /\ fn \in Classes /\ target = "ES2015"

\* has, against the instance cache inst (the cache changes while make runs).
HasIn(abstract, inst) ==
    \/ abstract \in DOMAIN bindings
    \/ abstract \in DOMAIN inst
    \/ abstract \in DOMAIN aliases
    \/ /\ TypeOf(abstract) = "function"
       /\ \E key \in DOMAIN bindings :
            /\ TypeOf(key) # "symbol"
            /\ TypeOf(bindings[key].concrete) = "function"
            /\ IsClass(bindings[key].concrete)
            /\ IsPrototypeOf(abstract, bindings[key].concrete)

Has(abstract) == HasIn(abstract, instances)

\* A lookup that follows one alias edge and stops.
GetAliasOneStep(abstract, seen) ==
    IF abstract \in DOMAIN aliases THEN aliases[abstract] ELSE abstract

RECURSIVE GetAliasFrom(_, _)
\* getAlias, with the identifiers already passed: a chain that comes back to
\* one of them recurses without end.
GetAliasFrom(abstract, seen) ==
    IF abstract \in DOMAIN aliases
    THEN IF abstract \in seen
         THEN Diverges
         ELSE GetAliasFrom(aliases[abstract], seen \cup {abstract})
    ELSE abstract

\* A lookup that follows no alias.
GetAliasNone(abstract) == abstract

GetAlias(abstract) == GetAliasFrom(abstract, {})

\* An isShared that resolves no alias.
IsSharedNoAlias(abstract, inst) ==
    IF abstract \in DOMAIN inst THEN TRUE
    ELSE IF abstract \notin DOMAIN bindings THEN FALSE
    ELSE bindings[abstract].shared

\* An isShared that looks at the instance cache only.
IsSharedFromCacheOnly(abstract, inst) ==
    LET r == GetAlias(abstract) IN
    IF r = Diverges THEN Diverges ELSE r \in DOMAIN inst

\* isShared, against the instance cache inst.
IsSharedIn(abstract, inst) ==
    LET r == GetAlias(abstract) IN
    IF r = Diverges THEN Diverges
    ELSE IF r \in DOMAIN inst THEN TRUE
    ELSE IF r \notin DOMAIN bindings THEN FALSE
    ELSE bindings[r].shared

IsShared(abstract) == IsSharedIn(abstract, instances)

\* A getConcrete that gives, for an unbound type, the bound class that
\* extends it.
GetConcreteSubtype(abstract) ==
    IF abstract \in DOMAIN bindings THEN bindings[abstract].concrete
    ELSE LET subs == {key \in DOMAIN bindings :
                         IsPrototypeOf(abstract, bindings[key].concrete)} IN
         IF subs = {} THEN abstract
         ELSE bindings[CHOOSE key \in subs : TRUE].concrete

\* getConcrete (lines 357-364)
GetConcrete(abstract) ==
    IF abstract \notin DOMAIN bindings THEN abstract
    ELSE bindings[abstract].concrete

\* An isBuildable that holds only of an identifier that is its own concrete.
IsBuildableOnlySelf(concrete, abstract) == concrete = abstract

\* isBuildable (lines 373-375)
IsBuildable(concrete, abstract) ==
    concrete = abstract \/ TypeOf(concrete) = "function"

(***************************************************************************)
(* bind, singleton                                                         *)
(***************************************************************************)

\* A bind that rejects nothing and overwrites.
BindRejectsNothing(abstract) == FALSE

\* bind: the duplicate check of lines 64-66.
BindRejects(abstract) == abstract \in DOMAIN bindings

\* A bind that drops every other binding.
BindSetAlone(abstract, concrete, shared) ==
    (abstract :> [concrete |-> concrete, shared |-> shared])

\* bind: line 68.
BindSet(abstract, concrete, shared) ==
    (abstract :> [concrete |-> concrete, shared |-> shared]) @@ bindings

Bind(abstract, concrete, shared, op) ==
    /\ Idle
    /\ IF BindRejects(abstract)
       THEN /\ UNCHANGED bindings
            /\ last' = Call(op, abstract, <<concrete>>, "DuplicateBinding")
       ELSE /\ Cardinality(DOMAIN bindings) < MaxBindings
            /\ bindings' = BindSet(abstract, concrete, shared)
            /\ last' = Call(op, abstract, <<concrete>>, "ok")
    /\ UNCHANGED <<instances, aliases, contextual, target, program, builder, application>>

BindOp == \E args \in BindArgs(program), shared \in BOOLEAN :
    Bind(args[1], args[2], shared, "bind")

SingletonOp == \E args \in BindArgs(program) :
    Bind(args[1], args[2], TRUE, "singleton")

(***************************************************************************)
(* make, build, resolveDependencies.  A resolution runs against a heap h:  *)
(* the instance cache as it stands and the log of the constructor          *)
(* invocations made so far.                                                *)
(***************************************************************************)

Heap(inst, built, held) == [inst |-> inst, built |-> built, held |-> held]

\* The references of the objects a log of constructor invocations mentions.
BuiltRefs(built) ==
    {built[i].ref : i \in DOMAIN built}
        \cup UNION {{built[i].args[j] : j \in DOMAIN built[i].args} : i \in DOMAIN built}

\* The objects that are reachable when a new one is allocated: those the
\* instance cache holds, those this resolution has built, and those the
\* caller holds from earlier calls.
Live(h) ==
    {h.inst[k].ref : k \in DOMAIN h.inst} \cup BuiltRefs(h.built) \cup h.held

\* The references an object may get: those of an object built to be cached
\* under identifier slot are that identifier's place among the identifiers
\* plus a multiple of Stride, those of an object that is not cached
\* ("transient") are the multiples of Stride.
IdOrder == <<"a", "b", "s", "L", "M", "A", "B">>

Stride == Len(IdOrder) + 1

RefsOf(slot, n) ==
    IF slot = "transient" THEN {Stride * j : j \in 1..n}
    ELSE LET i == CHOOSE i \in DOMAIN IdOrder : IdOrder[i] = slot IN
         {i + Stride * j : j \in 0..(n - 1)}

\* A new object is distinct from every reachable one: it gets the first
\* reference of its slot that none of them has.
Fresh(slot, h) ==
    LET free == RefsOf(slot, Cardinality(Live(h)) + 1) \ Live(h) IN
    CHOOSE n \in free : \A m \in free : n <= m

\* A call that returns ret.
Returned(ret, h) == [out |-> "ok", ret |-> ret, chain |-> <<>>, h |-> h]

\* A call that throws err; chain is what the error message reports.
Thrown(err, chain, h) == [out |-> err, ret |-> NoInstance, chain |-> chain, h |-> h]

\* resolving.includes(abstract)
Includes(seq, x) == \E i \in 1..Len(seq) : seq[i] = x

\* A chain that leaves out the identifier met again.
CircularChainStackOnly(resolving, abstract) == resolving

\* The chain the circular-dependency error reports (line 301).
CircularChain(resolving, abstract) == Append(resolving, abstract)

\* A make that never finds a cached instance.
HasInstanceNever(abstract, inst) == FALSE

\* this.instances.has(abstract) (line 305)
HasInstance(abstract, inst) == abstract \in DOMAIN inst

\* A dependency resolution that applies the override registered for the
\* parameter type whatever the context it was registered for.
DependencyTargetAnyContext(paramType, concrete) ==
    IF \E c \in DOMAIN contextual : paramType \in DOMAIN contextual[c]
    THEN contextual[CHOOSE c \in DOMAIN contextual :
                        paramType \in DOMAIN contextual[c]][paramType]
    ELSE paramType

\* What resolveDependencies resolves for a declared parameter type of the
\* concrete under construction (line 417): the parameter type itself.
DependencyTarget(paramType, concrete) == paramType

\* The constructor of a class, or the body of a factory once its needs are
\* resolved, yields a fresh object; args are what it was given.
Allocate(concrete, args, slot, h) ==
    LET ref == Fresh(slot, h) IN
    Returned([ref |-> ref, of |-> concrete],
             Heap(h.inst, Append(h.built, [of |-> concrete, ref |-> ref, args |-> args]),
                  h.held))

\* A make that caches nothing.
StoreNever(needsStore, abstract, r) == r

\* A make that caches whatever it builds.
StoreAlways(needsStore, abstract, r) ==
    IF r.out = "ok"
    THEN Returned(r.ret, Heap((abstract :> r.ret) @@ r.h.inst, r.h.built, r.h.held))
    ELSE r

\* A make that caches what it builds for any bound identifier.
StoreWhenBound(needsStore, abstract, r) ==
    IF r.out = "ok" /\ abstract \in DOMAIN bindings
    THEN Returned(r.ret, Heap((abstract :> r.ret) @@ r.h.inst, r.h.built, r.h.held))
    ELSE r

\* this.instances.set(abstract, instance) when needsStore (lines 331-333, 342-344)
Store(needsStore, abstract, r) ==
    IF r.out = "ok" /\ needsStore = TRUE
    THEN Returned(r.ret, Heap((abstract :> r.ret) @@ r.h.inst, r.h.built, r.h.held))
    ELSE r

\* A dependency check that lets every parameter type through.
RecognisedAlways(paramType, inst) == TRUE

\* this.has(paramType), the guard of lines 413-415.
Recognised(paramType, inst) == HasIn(paramType, inst)

RECURSIVE Make(_, _, _, _, _)
RECURSIVE MakeEach(_, _, _, _, _, _, _)

\* The callback of paramTypes.map (lines 412-418) over ids,
\* left to right, vals being the values resolved so far; with mustHave false,
\* the successive this.app.make(id) calls of a factory body, which pass no
\* resolution stack.
MakeEach(ids, vals, consumer, mustHave, resolving, running, h) ==
    IF Len(vals) = Len(ids) THEN [out |-> "ok", vals |-> vals, chain |-> <<>>, h |-> h]
    ELSE LET id == ids[Len(vals) + 1] IN
         IF mustHave /\ ~Recognised(id, h.inst)
         THEN [out |-> "UnresolvedDependency", vals |-> vals, chain |-> <<id>>, h |-> h]
         ELSE LET r == Make(IF mustHave THEN DependencyTarget(id, consumer) ELSE id,
                            <<>>, resolving, running, h) IN
              IF r.out = "ok"
              THEN MakeEach(ids, Append(vals, r.ret.ref), consumer, mustHave, resolving,
                            running, r.h)
              ELSE [out |-> r.out, vals |-> vals, chain |-> r.chain, h |-> r.h]

\* new concrete(...args).  A string is no constructor (TypeError), and
\* neither is an arrow function in a build that keeps it; a factory running
\* inside its own body comes back to itself without end (RangeError).
Construct(concrete, args, slot, running, h) ==
    IF TypeOf(concrete) # "function" THEN Thrown("TypeError", <<>>, h)
    ELSE IF concrete \in Classes THEN Allocate(concrete, args, slot, h)
    ELSE IF target = "ES2015" THEN Thrown("TypeError", <<>>, h)
    ELSE IF concrete \in running THEN Thrown("RangeError", <<>>, h)
    ELSE LET needs == MakeEach(FactoryNeeds(concrete), <<>>, concrete, FALSE, <<>>,
                               running \cup {concrete}, h) IN
         IF needs.out = "ok" THEN Allocate(concrete, needs.vals, slot, needs.h)
         ELSE Thrown(needs.out, needs.chain, needs.h)

\* resolveDependencies: Reflect.getMetadata throws a TypeError on a target
\* that is no object.
ResolveDependencies(concrete, resolving, running, h) ==
    IF TypeOf(concrete) # "function"
    THEN [out |-> "TypeError", vals |-> <<>>, chain |-> <<>>, h |-> h]
    ELSE MakeEach(ParamTypes(concrete), <<>>, concrete, TRUE, resolving, running, h)

\* A build that hands the resolved dependencies over in reverse.
BuildReversed(concrete, parameters, resolving, slot, running, h) ==
    IF Len(parameters) > 0 THEN Construct(concrete, parameters, slot, running, h)
    ELSE LET dependencies == ResolveDependencies(concrete, resolving, running, h) IN
         IF dependencies.out = "ok"
         THEN Construct(concrete,
                        [i \in 1..Len(dependencies.vals) |->
                            dependencies.vals[Len(dependencies.vals) + 1 - i]],
                        slot, running, dependencies.h)
         ELSE Thrown(dependencies.out, dependencies.chain, dependencies.h)

\* A build that resolves the declared dependencies whatever it is given.
BuildResolvesAlways(concrete, parameters, resolving, slot, running, h) ==
    LET dependencies == ResolveDependencies(concrete, resolving, running, h) IN
    IF dependencies.out = "ok"
    THEN Construct(concrete, dependencies.vals, slot, running, dependencies.h)
    ELSE Thrown(dependencies.out, dependencies.chain, dependencies.h)

\* build (lines 385-395)
Build(concrete, parameters, resolving, slot, running, h) ==
    IF Len(parameters) > 0 THEN Construct(concrete, parameters, slot, running, h)
    ELSE LET dependencies == ResolveDependencies(concrete, resolving, running, h) IN
         IF dependencies.out = "ok"
         THEN Construct(concrete, dependencies.vals, slot, running, dependencies.h)
         ELSE Thrown(dependencies.out, dependencies.chain, dependencies.h)

\* The branch of lines 321-336: isConstructor(concrete) ? new concrete(...)
\* : concrete(...); an arrow function kept by the build has no prototype and
\* is called.
Invoke(concrete, parameters, slot, running, h) ==
    IF concrete \in Factories /\ target = "ES2015"
    THEN LET needs == MakeEach(FactoryNeeds(concrete), <<>>, concrete, FALSE, <<>>,
                               running \cup {concrete}, h) IN
         IF concrete \in running THEN Thrown("RangeError", <<>>, h)
         ELSE IF needs.out = "ok" THEN Allocate(concrete, needs.vals, slot, needs.h)
         ELSE Thrown(needs.out, needs.chain, needs.h)
    ELSE Construct(concrete, parameters, slot, running, h)

Make(abstract0, parameters, resolving, running, h) ==
    LET abstract == GetAlias(abstract0) IN
    IF abstract = Diverges THEN Thrown("RangeError", <<>>, h)
    ELSE IF Includes(resolving, abstract)
    THEN Thrown("CircularDependency", CircularChain(resolving, abstract), h)
    ELSE IF HasInstance(abstract, h.inst) THEN Returned(h.inst[abstract], h)
    ELSE LET concrete == GetConcrete(abstract) IN
         IF TypeOf(concrete) \notin {"function", "string", "symbol"}
         THEN Make(concrete, parameters, Append(resolving, abstract), running, h)
         ELSE LET needsStore == IsSharedIn(abstract, h.inst)
                  slot == IF needsStore = TRUE THEN abstract ELSE "transient" IN
              IF TypeOf(concrete) = "function" /\ ~IsBuildable(concrete, abstract)
              THEN Store(needsStore, abstract,
                         Invoke(concrete, parameters, slot, running, h))
              ELSE Store(needsStore, abstract,
                         Build(concrete, parameters, Append(resolving, abstract), slot,
                               running, h))

\* make as the client calls it, on the instance cache inst, the caller
\* holding the objects held: no resolution stack.
MakeFrom(abstract, parameters, inst, held) ==
    Make(abstract, parameters, <<>>, {}, Heap(inst, <<>>, held))

MakeCall(abstract, parameters) == MakeFrom(abstract, parameters, instances, {})

MakeOp == \E args \in MakeArgs(program) :
    LET r == MakeCall(args[1], args[2]) IN
    /\ Idle
    /\ Cardinality(DOMAIN r.h.inst) <= MaxInstances
    /\ instances' = r.h.inst
    /\ last' = Call("make", args[1], args[2], r.out)
    /\ UNCHANGED <<bindings, aliases, contextual, target, program, builder, application>>

(***************************************************************************)
(* instance, alias, addContextualBinding, flush                            *)
(***************************************************************************)

\* An instance that keeps the value already cached.
InstanceSetIfAbsent(abstract, value) == instances @@ (abstract :> value)

\* instance: this.instances.set(abstract, instance) (line 112).
InstanceSet(abstract, value) == (abstract :> value) @@ instances

InstanceOp == \E abstract \in InstanceArgs(program) :
    LET value == [ref |-> Fresh(abstract, Heap(instances, <<>>, {})), of |-> "value"] IN
    /\ Idle
    /\ abstract \in DOMAIN instances \/ Cardinality(DOMAIN instances) < MaxInstances
    /\ instances' = InstanceSet(abstract, value)
    /\ last' = Call("instance", abstract, <<>>, "ok")
    /\ UNCHANGED <<bindings, aliases, contextual, target, program, builder, application>>

\* An alias that accepts a name already registered as an alias.
AliasRejectsNoDuplicate(abstract, alias) ==
    IF ~Has(abstract) THEN "UnboundAliasTarget" ELSE "ok"

\* An alias that accepts a target the container does not recognise.
AliasRejectsNoTarget(abstract, alias) ==
    IF alias \in DOMAIN aliases THEN "DuplicateAlias" ELSE "ok"

\* alias: the two checks of lines 129-135, in their order.
AliasRejects(abstract, alias) ==
    IF alias \in DOMAIN aliases THEN "DuplicateAlias"
    ELSE IF ~Has(abstract) THEN "UnboundAliasTarget"
    ELSE "ok"

AliasOp == \E args \in AliasArgs(program) :
    LET abstract == args[1]
        alias == args[2]
        out == AliasRejects(abstract, alias) IN
    /\ Idle
    /\ IF out = "ok"
       THEN /\ alias \in DOMAIN aliases \/ Cardinality(DOMAIN aliases) < MaxAliases
            /\ aliases' = (alias :> abstract) @@ aliases
       ELSE UNCHANGED aliases
    /\ last' = Call("alias", abstract, <<alias>>, out)
    /\ UNCHANGED <<bindings, instances, contextual, target, program, builder, application>>

\* The (context, abstract) pairs that hold an override.
ContextualPairs == {p \in (DOMAIN contextual) \X Ids : p[2] \in DOMAIN contextual[p[1]]}

\* An addContextualBinding that keeps the override already registered.
AddContextualBindingKeepsFirst(concrete, abstract, implementation) ==
    LET inner == IF concrete \in DOMAIN contextual THEN contextual[concrete] ELSE EmptyMap IN
    (concrete :> (inner @@ (abstract :> implementation))) @@ contextual

AddContextualBinding(concrete, abstract, implementation) ==
    LET inner == IF concrete \in DOMAIN contextual THEN contextual[concrete] ELSE EmptyMap IN
    (concrete :> ((abstract :> implementation) @@ inner)) @@ contextual

\* The model keeps at most MaxContextual overrides: a pair may be written
\* when it is held already or there is room for it.
Room(concrete, abstract) ==
    \/ <<concrete, abstract>> \in ContextualPairs
    \/ Cardinality(ContextualPairs) < MaxContextual

\* addContextualBinding(concrete, abstract, implementation), called directly
AddContextualBindingOp == \E args \in ContextualArgs(program) :
    /\ Idle
    /\ Room(args[1], args[2])
    /\ contextual' = AddContextualBinding(args[1], args[2], args[3])
    /\ last' = Call("addContextualBinding", args[1], <<args[2], args[3]>>, "ok")
    /\ UNCHANGED <<bindings, instances, aliases, target, program, builder, application>>

\* when(concrete): the first call of the chain returns a builder.
WhenOp == \E args \in ContextualArgs(program) :
    /\ Idle
    /\ Room(args[1], args[2])
    /\ builder' = ContextualBindingBuilder(args[1])
    /\ last' = Call("when", args[1], <<>>, "ok")
    /\ UNCHANGED <<bindings, instances, aliases, contextual, target, program, application>>

\* needs(abstract), on the builder that when returned
NeedsOp == \E args \in ContextualArgs(program) :
    /\ builder.stage = "when"
    /\ Room(builder.concrete, args[2])
    /\ builder' = ContextualBindingNeedsBuilder(builder.concrete, args[2])
    /\ last' = Call("needs", args[2], <<>>, "ok")
    /\ UNCHANGED <<bindings, instances, aliases, contextual, target, program, application>>

\* give(implementation), on the builder that needs returned: it calls
\* addContextualBinding with the builder's fields and ends the chain.
GiveOp == \E args \in ContextualArgs(program) :
    /\ builder.stage = "needs"
    /\ contextual' = AddContextualBinding(builder.concrete, builder.abstract, args[3])
    /\ builder' = NoBuilder
    /\ last' = Call("give", builder.concrete, <<builder.abstract, args[3]>>, "ok")
    /\ UNCHANGED <<bindings, instances, aliases, target, program, application>>

\* A clear that removes nothing.
ClearKeeps(map) == map

\* map.clear()
Clear(map) == EmptyMap

\* A flush that also forgets which provider classes are loaded.
FlushForgetsLoaded ==
    /\ Idle
    /\ bindings' = Clear(bindings)
    /\ instances' = Clear(instances)
    /\ aliases' = Clear(aliases)
    /\ contextual' = Clear(contextual)
    /\ loadedProviders' = {}
    /\ last' = Call("flush", "-", <<>>, "ok")
    /\ UNCHANGED <<target, program, builder, booted, bootingCallbacks,
                   bootedCallbacks, serviceProviders, registered, provided, calls>>

\* flush() (lines 437-442)
FlushOp ==
    /\ Idle
    /\ bindings' = Clear(bindings)
    /\ instances' = Clear(instances)
    /\ aliases' = Clear(aliases)
    /\ contextual' = Clear(contextual)
    /\ last' = Call("flush", "-", <<>>, "ok")
    /\ UNCHANGED <<target, program, builder, application>>

(***************************************************************************)
(* The queries, as operations: they return a value and write nothing.      *)
(***************************************************************************)

\* A boolean, as the string recorded of a query.
Show(v) == IF v THEN "true" ELSE "false"

HasOp == \E abstract \in QueryArgs(program) :
    /\ Idle
    /\ last' = Call("has", abstract, <<>>, Show(Has(abstract)))
    /\ UNCHANGED <<bindings, instances, aliases, contextual, target, program, builder, application>>

IsSharedOp == \E abstract \in QueryArgs(program) :
    /\ Idle
    /\ last' = Call("isShared", abstract, <<>>,
                     IF GetAlias(abstract) = Diverges THEN "RangeError"
                     ELSE Show(IsShared(abstract)))
    /\ UNCHANGED <<bindings, instances, aliases, contextual, target, program, builder, application>>

GetContextualConcreteOp == \E args \in ContextualQueryArgs(program) :
    /\ Idle
    /\ last' = Call("getContextualConcrete", args[2], <<args[1]>>,
                     GetContextualConcrete(args[1], args[2]))
    /\ UNCHANGED <<bindings, instances, aliases, contextual, target, program, builder, application>>

GetAliasOp == \E abstract \in QueryArgs(program) :
    /\ Idle
    /\ last' = Call("getAlias", abstract, <<>>,
                     IF GetAlias(abstract) = Diverges THEN "RangeError"
                     ELSE GetAlias(abstract))
    /\ UNCHANGED <<bindings, instances, aliases, contextual, target, program, builder, application>>

Next ==
    \/ BindOp
    \/ SingletonOp
    \/ InstanceOp
    \/ AliasOp
    \/ AddContextualBindingOp
    \/ WhenOp
    \/ NeedsOp
    \/ GiveOp
    \/ MakeOp
    \/ FlushOp
    \/ HasOp
    \/ IsSharedOp
    \/ GetAliasOp
    \/ GetContextualConcreteOp

Spec == Init /\ [][Next]_vars

(***************************************************************************)
(* The Application (lib/Application.ts): a Container with a booted flag,   *)
(* two lists of callbacks, the list of its service providers and the set   *)
(* of provider class names already loaded.  Callbacks and providers are    *)
(* client code, which may call back into the application; a call is        *)
(* computed on a record of the application's fields, with the number of    *)
(* application methods on the call stack.                                   *)
(***************************************************************************)

\* The functions the client passes to booting and onBooted: "plain" does
\* nothing, "reboot" calls app.boot(), "enrol" calls app.register(P).
Callbacks == {"plain", "reboot", "enrol"}

\* The provider classes of the client: P.register() binds the name a, as a
\* provider of the examples does; Q.boot() registers P.
ProviderClasses == {"P", "Q"}

\* The argument every callback is given: the application itself.
This == "app"

\* Lengths of the two callback lists, provider objects constructed, entries
\* in the record of invocations, and application methods on the call stack
\* (beyond it the engine throws RangeError).
MaxCallbacks == 2
MaxProvided == 3
MaxCalls == 6
StackLimit == 3

\* The application as a call works on it: the fields, the bindings of the
\* container, and the error propagating, if any.
Running ==
    [booted |-> booted,
     bootingCallbacks |-> bootingCallbacks,
     bootedCallbacks |-> bootedCallbacks,
     serviceProviders |-> serviceProviders,
     loadedProviders |-> loadedProviders,
     registered |-> registered,
     provided |-> provided,
     calls |-> calls,
     bindings |-> bindings,
     thrown |-> "ok"]

\* An invocation of client code by the application: a callback of one of
\* the two lists, with its argument, or the register() or boot() of a
\* provider; with the booted flag at that moment and the number of
\* application methods that client code had called into below it.
Invocation(a, what, fn, provider, depth) ==
    [what |-> what, fn |-> fn, provider |-> provider,
     with |-> IF what \in {"booting", "booted"} THEN This ELSE "-",
     booted |-> a.booted, depth |-> depth]

Log(a, what, fn, provider, depth) ==
    [a EXCEPT !.calls = Append(@, Invocation(a, what, fn, provider, depth))]

Throw(a, error) == [a EXCEPT !.thrown = error]

\* A loaded check that finds nothing loaded.
LoadedNever(a, name) == FALSE

\* this.loadedProviders.has(name) (line 72)
Loaded(a, name) == name \in a.loadedProviders

RECURSIVE Register(_, _, _, _)
RECURSIVE BootProvider(_, _, _)
RECURSIVE Boot(_, _)
RECURSIVE FireAppCallbacks(_, _, _, _, _)
RECURSIVE BootEach(_, _, _, _)
RECURSIVE RunCallback(_, _, _, _)

\* callback(this): the body of the function the client passed.
RunCallback(a, what, fn, depth) ==
    LET a1 == Log(a, what, fn, NoProvider, depth) IN
    CASE fn = "reboot" -> Boot(a1, depth + 1)
      [] fn = "enrol" -> Register(a1, "P", NoProvider, depth + 1)
      [] OTHER -> a1

\* callbacks.forEach(callback => callback(this)): forEach visits the
\* elements up to the length the array had when it began (n).
FireAppCallbacks(a, what, i, n, depth) ==
    IF a.thrown # "ok" \/ i > n THEN a
    ELSE LET list == IF what = "booting" THEN a.bootingCallbacks
                     ELSE a.bootedCallbacks IN
         FireAppCallbacks(RunCallback(a, what, list[i], depth), what, i + 1, n, depth)

\* provider.register(): P binds the name a to the class M, which fails on a
\* name that is bound (part_007 lines 64-66); Q registers nothing.
ProviderRegister(a, provider, depth) ==
    LET a1 == Log(a, "register", "-", provider, depth) IN
    IF provider.class = "P"
    THEN IF "a" \in DOMAIN a1.bindings
         THEN Throw(a1, "DuplicateBinding")
         ELSE [a1 EXCEPT !.bindings =
                  ("a" :> [concrete |-> "M", shared |-> FALSE]) @@ @]
    ELSE a1

\* bootProvider: provider.boot().  Q.boot() calls app.register(P).
BootProvider(a, provider, depth) ==
    LET a1 == Log(a, "boot", "-", provider, depth) IN
    IF provider.class = "Q"
    THEN Register(a1, "P", NoProvider, depth + 1)
    ELSE a1

\* this.serviceProviders.forEach(provider => this.bootProvider(provider))
BootEach(a, i, n, depth) ==
    IF a.thrown # "ok" \/ i > n THEN a
    ELSE BootEach(BootProvider(a, a.serviceProviders[i], depth), i + 1, n, depth)

\* return provider (lines 73 and 90)
RegisterReturns(a, provider) == [a EXCEPT !.registered = provider]

\* A register that never boots the provider itself.
RegisterDefers(a, class, given, depth) ==
    IF a.thrown # "ok" THEN a
    ELSE IF depth > StackLimit THEN Throw(a, "RangeError")
    ELSE
    LET constructs == given = NoProvider
        provider == IF constructs THEN [class |-> class, ref |-> a.provided + 1]
                    ELSE given
        a0 == IF constructs THEN [a EXCEPT !.provided = @ + 1] ELSE a
        name == provider.class IN
    IF Loaded(a0, name) THEN RegisterReturns(a0, provider)
    ELSE
    LET a1 == [a0 EXCEPT !.loadedProviders = @ \cup {name}]
        a2 == ProviderRegister(a1, provider, depth)
        a3 == IF a2.thrown # "ok" THEN a2
              ELSE [a2 EXCEPT !.serviceProviders = Append(@, provider)] IN
    IF a3.thrown # "ok" THEN a3 ELSE RegisterReturns(a3, provider)

\* register(provider): given is the object passed, or NoProvider when the
\* class is passed and register constructs the object (lines 65-67).
Register(a, class, given, depth) ==
    IF a.thrown # "ok" THEN a
    ELSE IF depth > StackLimit THEN Throw(a, "RangeError")
    ELSE
    LET constructs == given = NoProvider
        provider == IF constructs THEN [class |-> class, ref |-> a.provided + 1]
                    ELSE given
        a0 == IF constructs THEN [a EXCEPT !.provided = @ + 1] ELSE a
        name == provider.class IN
    IF Loaded(a0, name) THEN RegisterReturns(a0, provider)
    ELSE
    LET a1 == [a0 EXCEPT !.loadedProviders = @ \cup {name}]
        a2 == ProviderRegister(a1, provider, depth)
        a3 == IF a2.thrown # "ok" THEN a2
              ELSE [a2 EXCEPT !.serviceProviders = Append(@, provider)]
        a4 == IF a3.thrown = "ok" /\ a3.booted
              THEN BootProvider(a3, provider, depth)
              ELSE a3 IN
    IF a4.thrown # "ok" THEN a4 ELSE RegisterReturns(a4, provider)

\* A boot that boots the providers before it runs the booting callbacks.
BootProvidersFirst(a, depth) ==
    IF a.thrown # "ok" THEN a
    ELSE IF depth > StackLimit THEN Throw(a, "RangeError")
    ELSE IF a.booted THEN a
    ELSE
    LET a1 == BootEach(a, 1, Len(a.serviceProviders), depth)
        a2 == FireAppCallbacks(a1, "booting", 1, Len(a1.bootingCallbacks), depth)
        a3 == IF a2.thrown # "ok" THEN a2 ELSE [a2 EXCEPT !.booted = TRUE] IN
    FireAppCallbacks(a3, "booted", 1, Len(a3.bootedCallbacks), depth)

\* A boot that leaves the booted flag as it is.
BootForgets(a, depth) ==
    IF a.thrown # "ok" THEN a
    ELSE IF depth > StackLimit THEN Throw(a, "RangeError")
    ELSE IF a.booted THEN a
    ELSE
    LET a1 == FireAppCallbacks(a, "booting", 1, Len(a.bootingCallbacks), depth)
        a2 == BootEach(a1, 1, Len(a1.serviceProviders), depth) IN
    FireAppCallbacks(a2, "booted", 1, Len(a2.bootedCallbacks), depth)

\* boot() (lines 140-158)
Boot(a, depth) ==
    IF a.thrown # "ok" THEN a
    ELSE IF depth > StackLimit THEN Throw(a, "RangeError")
    ELSE IF a.booted THEN a
    ELSE
    LET a1 == FireAppCallbacks(a, "booting", 1, Len(a.bootingCallbacks), depth)
        a2 == BootEach(a1, 1, Len(a1.serviceProviders), depth)
        a3 == IF a2.thrown # "ok" THEN a2 ELSE [a2 EXCEPT !.booted = TRUE] IN
    FireAppCallbacks(a3, "booted", 1, Len(a3.bootedCallbacks), depth)

\* isBooted() (lines 175-177)
IsBooted(a) == a.booted

\* booting(callback) (lines 196-198)
Booting(a, callback) == [a EXCEPT !.bootingCallbacks = Append(@, callback)]

\* An onBooted that only keeps the callback.
OnBootedKeepsOnly(a, callback, depth) ==
    [a EXCEPT !.bootedCallbacks = Append(@, callback)]

\* onBooted(callback) (lines 218-224)
OnBooted(a, callback, depth) ==
    LET a1 == [a EXCEPT !.bootedCallbacks = Append(@, callback)] IN
    IF IsBooted(a1) THEN RunCallback(a1, "booted", callback, depth) ELSE a1

\* What a call leaves behind: the fields of the record are the fields of
\* the application, whether the call returned or threw.
Leaves(a, op, id, arg) ==
    /\ Len(a.calls) <= MaxCalls
    /\ a.provided <= MaxProvided
    /\ Len(a.bootedCallbacks) <= MaxCallbacks
    /\ booted' = a.booted
    /\ bootingCallbacks' = a.bootingCallbacks
    /\ bootedCallbacks' = a.bootedCallbacks
    /\ serviceProviders' = a.serviceProviders
    /\ loadedProviders' = a.loadedProviders
    /\ registered' = IF op = "register" /\ a.thrown = "ok" THEN a.registered ELSE NoProvider
    /\ provided' = a.provided
    /\ calls' = a.calls
    /\ bindings' = a.bindings
    /\ last' = Call(op, id, arg, a.thrown)
    /\ UNCHANGED <<instances, aliases, contextual, target, program, builder>>

\* register(Class): the application constructs the provider.
RegisterClassOp == \E class \in ProviderClasses :
    /\ Idle
    /\ Leaves(Register(Running, class, NoProvider, 0), "register", class, <<"class">>)

\* register(new Class(app)): the client constructs the provider.
RegisterObjectOp == \E class \in ProviderClasses :
    LET given == [class |-> class, ref |-> provided + 1] IN
    /\ Idle
    /\ Leaves(Register([Running EXCEPT !.provided = @ + 1], class, given, 0),
              "register", class, <<"object">>)

BootOp ==
    /\ Idle
    /\ Leaves(Boot(Running, 0), "boot", "-", <<>>)

BootingOp == \E callback \in Callbacks :
    /\ Idle
    /\ Len(bootingCallbacks) < MaxCallbacks
    /\ Leaves(Booting(Running, callback), "booting", callback, <<>>)

OnBootedOp == \E callback \in Callbacks :
    /\ Idle
    /\ Leaves(OnBooted(Running, callback, 0), "onBooted", callback, <<>>)

IsBootedOp ==
    /\ Idle
    /\ last' = Call("isBooted", "-", <<>>, Show(IsBooted(Running)))
    /\ UNCHANGED <<maps, target, program, builder, application>>

\* The application of the examples: string identifiers, class syntax kept.
AppInit == Init /\ program = "names" /\ target = "ES2015"

AppNext ==
    \/ RegisterClassOp
    \/ RegisterObjectOp
    \/ BootOp
    \/ BootingOp
    \/ OnBootedOp
    \/ IsBootedOp
    \/ FlushOp

AppSpec == AppInit /\ [][AppNext]_vars

(***************************************************************************)
(* Properties                                                              *)
(***************************************************************************)

\* The objects a caller holds once a make has returned.
Held(r) == {r.ret.ref} \cup BuiltRefs(r.h.built)

\* How many times a resolution has invoked the constructor or factory.
Constructions(concrete, built) ==
    Cardinality({i \in DOMAIN built : built[i].of = concrete})

SharedBound(a) == a \in DOMAIN bindings /\ bindings[a].shared

TransientBound(a) == a \in DOMAIN bindings /\ ~bindings[a].shared

\* C1: a bind or a singleton on an identifier that already has a binding
\* fails with DuplicateBindingError and changes none of the four maps, so
\* the binding keeps its concrete and its shared flag.
C1_DuplicateBindFails ==
    [][(last'.op \in {"bind", "singleton"} /\ last'.id \in DOMAIN bindings)
          => (last'.out = "DuplicateBinding" /\ UNCHANGED maps)]_vars

\* A singleton of another concrete has just been rejected on an identifier
\* bound non-shared.
C1_Witness ==
    /\ last.op = "singleton"
    /\ last.out = "DuplicateBinding"
    /\ bindings[last.id].concrete # last.arg[1]
    /\ ~bindings[last.id].shared

\* C2, as amended: where a has a shared binding, is no alias name and has no
\* cached instance, a make(a) that succeeds constructs the concrete once,
\* and the make(a) after it succeeds, returns the same reference and
\* constructs nothing.
C2_SingletonSameInstance ==
    \A a \in Ids :
        (SharedBound(a) /\ a \notin DOMAIN aliases /\ a \notin DOMAIN instances)
        => LET r1 == MakeCall(a, <<>>)
               r2 == MakeFrom(a, <<>>, r1.h.inst, Held(r1)) IN
           r1.out = "ok"
           => /\ r2.out = "ok"
              /\ r2.ret = r1.ret
              /\ Constructions(bindings[a].concrete, r1.h.built) = 1
              /\ r2.h.built = <<>>

\* singleton(a, C) has just succeeded on an identifier that is no alias
\* name and has no cached instance, and make(a) succeeds.
C2_Witness ==
    /\ last.op = "singleton"
    /\ last.out = "ok"
    /\ last.id \notin DOMAIN aliases
    /\ last.id \notin DOMAIN instances
    /\ MakeCall(last.id, <<>>).out = "ok"

\* C2 as stated: right after singleton(a, C) succeeds, two successive
\* make(a) calls that return give the same reference and construct C
\* exactly once between them.
C2_AsStated ==
    \A a \in Ids :
        (last.op = "singleton" /\ last.out = "ok" /\ last.id = a)
        => LET r1 == MakeCall(a, <<>>)
               r2 == MakeFrom(a, <<>>, r1.h.inst, Held(r1)) IN
           (r1.out = "ok" /\ r2.out = "ok")
           => /\ r2.ret = r1.ret
              /\ Constructions(last.arg[1], r1.h.built)
                    + Constructions(last.arg[1], r2.h.built) = 1

C4_TransientFreshInstance ==
    \A a \in Ids :
        (TransientBound(a) /\ a \notin DOMAIN aliases /\ a \notin DOMAIN instances)
        => LET r1 == MakeCall(a, <<>>)
               r2 == MakeFrom(a, <<>>, r1.h.inst, Held(r1))
               C == bindings[a].concrete IN
           r1.out = "ok"
           => /\ r2.out = "ok"
              /\ r1.ret.ref # r2.ret.ref
              /\ r1.ret.of = C /\ Constructions(C, r1.h.built) = 1
              /\ r2.ret.of = C /\ Constructions(C, r2.h.built) = 1
              /\ a \notin DOMAIN r1.h.inst
              /\ a \notin DOMAIN r2.h.inst

\* A non-shared bind(a, C) has just succeeded on an identifier that is no
\* alias name and has no cached instance, and make(a) succeeds.
C4_Witness ==
    /\ last.op = "bind"
    /\ last.out = "ok"
    /\ ~bindings[last.id].shared
    /\ last.id \notin DOMAIN aliases
    /\ last.id \notin DOMAIN instances
    /\ MakeCall(last.id, <<>>).out = "ok"

\* C4 as stated: right after a non-shared bind(a, C) succeeds, two
\* successive make(a) calls that return give distinct objects.
C4_AsStated ==
    \A a \in Ids :
        (last.op = "bind" /\ last.out = "ok" /\ last.id = a /\ ~bindings[a].shared)
        => LET r1 == MakeCall(a, <<>>)
               r2 == MakeFrom(a, <<>>, r1.h.inst, Held(r1)) IN
           (r1.out = "ok" /\ r2.out = "ok") => r1.ret.ref # r2.ret.ref

\* What the object with reference ref is an instance of: the constructor
\* invocation that yielded it, or the cached value it is.
ObjectOf(ref, h) ==
    IF \E i \in DOMAIN h.built : h.built[i].ref = ref
    THEN h.built[CHOOSE i \in DOMAIN h.built : h.built[i].ref = ref].of
    ELSE h.inst[CHOOSE k \in DOMAIN h.inst : h.inst[k].ref = ref].of

\* The arguments the constructor of the object with reference ref was given.
ArgsOf(ref, h) == h.built[CHOOSE i \in DOMAIN h.built : h.built[i].ref = ref].args

\* C5: after when(context).needs(x).give(y), a make(context) that builds
\* context passes, for its dependency on x, an instance of what make(y)
\* yields.
C5_ContextualOverrideApplied ==
    \A p \in ContextualPairs :
        LET context == p[1]
            x == p[2]
            y == contextual[context][x]
            r == MakeCall(context, <<>>)
            want == MakeCall(y, <<>>) IN
        (r.out = "ok" /\ r.ret.of = context /\ r.h.built # <<>> /\ want.out = "ok")
        => \A i \in DOMAIN ParamTypes(context) :
              ParamTypes(context)[i] = x
              => ObjectOf(ArgsOf(r.ret.ref, r.h)[i], r.h) = want.ret.of

\* The object with reference ref is what x resolves to by default: the
\* instance cached under the canonical identifier of x, or an instance of
\* the concrete of that identifier.
DefaultResolution(x, ref, h) ==
    LET key == GetAlias(x) IN
    \/ key \in DOMAIN h.inst /\ h.inst[key].ref = ref
    \/ ObjectOf(ref, h) = GetConcrete(key)

\* C6: an override registered for context c on x leaves x resolving by
\* default everywhere else: a top-level make(x) returns the default
\* resolution of x, and in every make, every constructor other than c that
\* declares a dependency on x is given the default resolution of x.
C6_OverrideConfined ==
    \A p \in ContextualPairs :
        LET c == p[1]
            x == p[2]
            top == MakeCall(x, <<>>) IN
        /\ top.out = "ok" => DefaultResolution(x, top.ret.ref, top.h)
        /\ \A t \in Ids :
              LET r == MakeCall(t, <<>>) IN
              \A i \in DOMAIN r.h.built :
                  LET consumer == r.h.built[i].of
                      args == r.h.built[i].args IN
                  (consumer # c /\ consumer \in Classes)
                  => \A j \in DOMAIN ParamTypes(consumer) :
                        ParamTypes(consumer)[j] = x
                        => DefaultResolution(x, args[j], r.h)

\* An override for context c on x has just been registered while make(x)
\* succeeds and another type than c is built with a dependency on x.
C6_Witness ==
    /\ last.op = "give"
    /\ \E p \in ContextualPairs :
          /\ p[1] = last.id
          /\ MakeCall(p[2], <<>>).out = "ok"
          /\ \E t \in Classes \ {last.id} :
                LET r == MakeCall(t, <<>>) IN
                /\ r.out = "ok"
                /\ r.ret.of = t
                /\ r.h.built # <<>>
                /\ Includes(ParamTypes(t), p[2])
                /\ \A i \in DOMAIN r.h.built : r.h.built[i].of # last.id

\* The two factories are bound, each needing the other's identifier, and
\* nothing else is registered.
FactoryCycle ==
    /\ DOMAIN bindings = {"a", "b"}
    /\ bindings["a"].concrete = "fa"
    /\ bindings["b"].concrete = "fb"
    /\ instances = EmptyMap
    /\ aliases = EmptyMap

\* C7: with a bound to a factory that makes b and b to a factory that makes
\* a, make(a) fails with CircularDependencyError and the chain reported
\* holds a and b.
C7_FactoryCycleDetected ==
    FactoryCycle
    => LET r == MakeCall("a", <<>>) IN
       /\ r.out = "CircularDependency"
       /\ Includes(r.chain, "a")
       /\ Includes(r.chain, "b")

\* A and B are bound to themselves, neither is cached or an alias name, and
\* the other dependency of both, L, is recognised and resolves.
ConstructorCycle ==
    /\ {"A", "B"} \subseteq DOMAIN bindings
    /\ bindings["A"].concrete = "A"
    /\ bindings["B"].concrete = "B"
    /\ {"A", "B"} \cap DOMAIN instances = {}
    /\ {"A", "B", "L"} \cap DOMAIN aliases = {}
    /\ Has("L")
    /\ MakeCall("L", <<>>).out = "ok"

\* C8: where A needs B and B needs A, make(A) fails with
\* CircularDependencyError and the chain is the resolution stack followed by
\* the identifier met again, A -> B -> A; and whenever a make fails with
\* CircularDependencyError, the chain starts at the canonical identifier
\* asked for, holds canonical identifiers only, and ends with the one
\* identifier that occurs in it twice.
C8_ConstructorCycleDetected ==
    /\ ConstructorCycle
       => /\ MakeCall("A", <<>>).out = "CircularDependency"
          /\ MakeCall("A", <<>>).chain = <<"A", "B", "A">>
          /\ MakeCall("B", <<>>).out = "CircularDependency"
          /\ MakeCall("B", <<>>).chain = <<"B", "A", "B">>
    /\ \A t \in Ids :
          LET r == MakeCall(t, <<>>)
              n == Len(r.chain) IN
          r.out = "CircularDependency"
          => /\ n >= 2
             /\ r.chain[1] = GetAlias(t)
             /\ \A i \in 1..n : r.chain[i] \notin DOMAIN aliases
             /\ \E i \in 1..(n - 1) : r.chain[i] = r.chain[n]
             /\ \A i, j \in 1..(n - 1) : r.chain[i] = r.chain[j] => i = j

\* make(A) has just failed with CircularDependencyError on the cycle.
C8_Witness ==
    /\ last.op = "make"
    /\ last.id = "A"
    /\ last.arg = <<>>
    /\ last.out = "CircularDependency"
    /\ ConstructorCycle

\* C9: where b is an alias of a, make(b) and make(a) have the same outcome,
\* with or without explicit arguments: the same canonical identifier as
\* cache key, the same concrete, the same objects built and cached, the
\* same result; and where the canonical identifier has a shared binding,
\* the instance that a make under either name returns is the one a make
\* under the other name returns next.
C9_AliasResolvesAsTarget ==
    \A b \in DOMAIN aliases :
        LET a == aliases[b]
            key == GetAlias(b) IN
        /\ GetAlias(a) = key
        /\ GetConcrete(GetAlias(a)) = GetConcrete(key)
        /\ MakeCall(b, <<>>) = MakeCall(a, <<>>)
        /\ MakeCall(b, <<0>>) = MakeCall(a, <<0>>)
        /\ SharedBound(key)
           => LET rb == MakeCall(b, <<>>)
                  ra == MakeCall(a, <<>>) IN
              /\ rb.out = "ok"
                 => MakeFrom(a, <<>>, rb.h.inst, Held(rb)).ret = rb.ret
              /\ ra.out = "ok"
                 => MakeFrom(b, <<>>, ra.h.inst, Held(ra)).ret = ra.ret

\* A make under an alias name has just returned the instance cached under
\* the shared binding of the name it stands for.
C9_Witness ==
    /\ last.op = "make"
    /\ last.out = "ok"
    /\ last.id \in DOMAIN aliases
    /\ aliases[last.id] # last.id
    /\ SharedBound(aliases[last.id])
    /\ aliases[last.id] \in DOMAIN instances
    /\ instances[aliases[last.id]].of = bindings[aliases[last.id]].concrete

\* C10: getAlias terminates for every identifier and returns an identifier
\* that is no alias name, and no alias name is its own target or lies on a
\* cycle of aliases.
C10_AliasGraphAcyclic ==
    \A id \in Ids :
        /\ GetAlias(id) # Diverges
        /\ GetAlias(id) \notin DOMAIN aliases
        /\ id \in DOMAIN aliases => aliases[id] # id

\* C11: getAlias returns an identifier that is no alias unchanged, and
\* wherever it returns, applying it to what it returned gives the same
\* identifier again.
C11_GetAliasIdempotent ==
    \A a \in Ids :
        /\ a \notin DOMAIN aliases => GetAlias(a) = a
        /\ GetAlias(a) # Diverges => GetAlias(GetAlias(a)) = GetAlias(a)

\* getAlias("a") has just returned "L", the end of the chain a -> b -> L.
C11_Witness ==
    /\ last.op = "getAlias"
    /\ last.id = "a"
    /\ last.out = "L"
    /\ "a" \in DOMAIN aliases
    /\ aliases["a"] = "b"
    /\ "b" \in DOMAIN aliases
    /\ aliases["b"] = "L"

Unrecognised(concrete) ==
    {i \in DOMAIN ParamTypes(concrete) : ~Has(ParamTypes(concrete)[i])}

\* The resolution, left to right, of the dependencies that concrete declares
\* before place i, as make(abstract) runs it.
ResolvedBefore(i, concrete, abstract) ==
    MakeEach(SubSeq(ParamTypes(concrete), 1, i - 1), <<>>, concrete, TRUE,
             <<abstract>>, {}, Heap(instances, <<>>, {}))

\* C13: where make(t) builds a class C without explicit arguments and has
\* is false of a dependency that C declares, d being the first such, make
\* fails without invoking the constructor of C; where the dependencies
\* declared before d resolve, it fails with UnresolvedDependencyError naming
\* d, having resolved the dependencies before d and nothing after them.
C13_UnresolvedDependency ==
    \A t \in Ids :
        LET abstract == GetAlias(t)
            C == GetConcrete(abstract)
            r == MakeCall(t, <<>>) IN
        ( /\ abstract # Diverges
          /\ abstract \notin DOMAIN instances
          /\ C \in Classes
          /\ Unrecognised(C) # {} )
        => LET i == CHOOSE i \in Unrecognised(C) : \A j \in Unrecognised(C) : i <= j
               before == ResolvedBefore(i, C, abstract) IN
           /\ r.out # "ok"
           /\ Constructions(C, r.h.built) = 0
           /\ before.out = "ok"
              => /\ r.out = "UnresolvedDependency"
                 /\ r.chain = <<ParamTypes(C)[i]>>
                 /\ r.h = before.h

\* make("A") has just failed with UnresolvedDependencyError on B, the
\* second dependency of A, the first one being recognised.
C13_Witness ==
    /\ last.op = "make"
    /\ last.id = "A"
    /\ last.arg = <<>>
    /\ last.out = "UnresolvedDependency"
    /\ Has("L")
    /\ ~Has("B")
    /\ MakeCall("A", <<>>).chain = <<"B">>

\* C14: a make that fails with CircularDependencyError or with
\* UnresolvedDependencyError leaves the instance cache as it was before the
\* call.
C14_NoCacheOnFailure ==
    \A t \in Ids :
        LET r == MakeCall(t, <<>>) IN
        r.out \in {"CircularDependency", "UnresolvedDependency"}
        => r.h.inst = instances

\* C15: every make ends in one of three ways: an instance is returned, or
\* it fails with CircularDependencyError or with UnresolvedDependencyError.
C15_MakeOutcomes ==
    \A t \in Ids, parameters \in {<<>>, <<0>>} :
        MakeCall(t, parameters).out
            \in {"ok", "CircularDependency", "UnresolvedDependency"}

\* C16: after flush the four maps are empty as at construction: has is
\* false of every identifier, types that matched structurally included,
\* isShared is false, getAlias returns its argument, and
\* getContextualConcrete returns null for every pair.
C16_FlushEmpties ==
    last.op = "flush"
    => /\ bindings = EmptyMap
       /\ instances = EmptyMap
       /\ aliases = EmptyMap
       /\ contextual = EmptyMap
       /\ \A id \in Ids :
             /\ ~Has(id)
             /\ IsShared(id) = FALSE
             /\ GetAlias(id) = id
             /\ \A c \in Ids : GetContextualConcrete(id, c) = Null

\* flush has just been called.
C16_Witness ==
    /\ last.op = "flush"
    /\ last.out = "ok"
    /\ maps = <<EmptyMap, EmptyMap, EmptyMap, EmptyMap>>

\* isShared(id) returns v.
SharedIs(id, v) == GetAlias(id) # Diverges /\ IsShared(id) = v

\* C17, as amended: for an identifier a that is no alias name, while a has
\* a non-shared binding and no cached instance has(a) is true and
\* isShared(a) is false, and while a has a shared binding has(a) and
\* isShared(a) are both true.
C17_BoundFlags ==
    \A a \in Ids :
        a \notin DOMAIN aliases
        => /\ (TransientBound(a) /\ a \notin DOMAIN instances)
              => (Has(a) /\ SharedIs(a, FALSE))
           /\ SharedBound(a) => (Has(a) /\ SharedIs(a, TRUE))

\* isShared has just returned false of an identifier that a bind with the
\* default shared argument has bound, that is no alias name and has no
\* cached instance.
C17_Witness ==
    /\ last.op = "isShared"
    /\ last.out = "false"
    /\ TransientBound(last.id)
    /\ last.id \notin DOMAIN aliases
    /\ last.id \notin DOMAIN instances

\* C17 as stated: right after a non-shared bind(a, C) succeeds has(a) is
\* true and isShared(a) is false, and right after singleton(a, C) succeeds
\* both are true.
C17_AsStated ==
    /\ (last.op = "bind" /\ last.out = "ok" /\ ~bindings[last.id].shared)
       => (Has(last.id) /\ SharedIs(last.id, FALSE))
    /\ (last.op = "singleton" /\ last.out = "ok")
       => (Has(last.id) /\ SharedIs(last.id, TRUE))

\* make(id), with or without explicit arguments, returns the value cached
\* under id and constructs nothing.
MakeReturnsCached(id) ==
    \A parameters \in {<<>>, <<0>>} :
        LET r == MakeCall(id, parameters) IN
        /\ r.out = "ok"
        /\ id \in DOMAIN instances
        /\ r.ret = instances[id]
        /\ r.h.built = <<>>
        /\ r.h.inst = instances

\* has(id) and isShared(id) are true and make(id) returns the cached value.
InstanceHonoured(id) == Has(id) /\ SharedIs(id, TRUE) /\ MakeReturnsCached(id)

\* C18, as amended: instance(id, v) caches v under id, replacing the value
\* cached there, and changes no other cache entry and no other map; and
\* where id is no alias name, has(id) and isShared(id) are then true and
\* make(id) returns v without constructing anything.
C18_InstanceRegistered ==
    [][\A id \in Ids :
          (last'.op = "instance" /\ last'.id = id)
          => /\ UNCHANGED <<bindings, aliases, contextual>>
             /\ id \in DOMAIN instances'
             /\ instances'[id].of = "value"
             /\ id \in DOMAIN instances => instances'[id] # instances[id]
             /\ DOMAIN instances' = DOMAIN instances \cup {id}
             /\ \A k \in DOMAIN instances :
                   k # id => /\ instances'[k] = instances[k]
                             /\ instances'[k].ref # instances'[id].ref
             /\ id \notin DOMAIN aliases => InstanceHonoured(id)']_vars

\* instance(id, v) has just replaced the value cached under an identifier
\* that is no alias name and has a binding.
C18_Witness ==
    /\ last.op = "instance"
    /\ last.id \in DOMAIN bindings
    /\ last.id \notin DOMAIN aliases
    /\ instances[last.id].ref > Stride
    /\ MakeReturnsCached(last.id)

\* C18 as stated: after instance(id, v), whatever the identifier and the
\* state, has(id) and isShared(id) are true and make(id) returns v without
\* constructing anything.
C18_AsStated ==
    last.op = "instance" => InstanceHonoured(last.id)

\* sub is declared as extending sup.
Extends(sub, sup) == sub = "M" /\ sup = "L"

\* C19, as amended: for a class id with no binding, cached instance or
\* alias of its own, has(id) is true exactly when some binding registered
\* under a name or a class, not under a symbol, has as concrete a class
\* that the build keeps as a class and that extends id; a concrete that is
\* id itself does not count.
C19_StructuralHas ==
    \A id \in Classes :
        (id \notin DOMAIN bindings /\ id \notin DOMAIN instances
            /\ id \notin DOMAIN aliases)
        => (Has(id)
            <=> \E key \in DOMAIN bindings :
                   /\ key \notin Tokens
                   /\ bindings[key].concrete \in Classes
                   /\ target = "ES2015"
                   /\ Extends(bindings[key].concrete, id))

\* has("L") has just returned true on the strength of a binding of M, which
\* extends L, L itself being neither bound, cached nor an alias.
C19_Witness ==
    /\ last.op = "has"
    /\ last.id = "L"
    /\ last.out = "true"
    /\ "L" \notin DOMAIN bindings
    /\ "L" \notin DOMAIN instances
    /\ "L" \notin DOMAIN aliases
    /\ \E key \in DOMAIN bindings : bindings[key].concrete = "M"

\* C19 as stated: has(id) is true of a class id whenever some binding,
\* under whatever kind of identifier, has as concrete a class that extends
\* id or is id.
C19_AsStated ==
    \A id \in Classes :
        (\E key \in DOMAIN bindings :
            \/ bindings[key].concrete = id
            \/ Extends(bindings[key].concrete, id))
        => Has(id)

\* What isShared is to return of the canonical identifier r: true if an
\* instance is cached for r, else false if r has no binding, else the shared
\* flag of the binding of r.
SharedOfCanonical(r) ==
    IF r \in DOMAIN instances THEN TRUE
    ELSE IF r \notin DOMAIN bindings THEN FALSE
    ELSE bindings[r].shared

\* C20: wherever getAlias(id) returns r, isShared(id) returns true if an
\* instance is cached for r, else false if r has no binding, else the
\* shared flag of r's binding; and a call of isShared returns just that and
\* changes none of the four maps.
C20_IsSharedResolved ==
    /\ [](\A id \in Ids :
            GetAlias(id) # Diverges
            => IsShared(id) = SharedOfCanonical(GetAlias(id)))
    /\ [][\A id \in Ids :
            (last'.op = "isShared" /\ last'.id = id)
            => /\ UNCHANGED maps
               /\ GetAlias(id) # Diverges
                  => last'.out = Show(SharedOfCanonical(GetAlias(id)))]_vars

\* isShared has just returned true of an alias name whose target has a
\* shared binding and no cached instance.
C20_Witness ==
    /\ last.op = "isShared"
    /\ last.out = "true"
    /\ last.id \in DOMAIN aliases
    /\ aliases[last.id] # last.id
    /\ SharedBound(GetAlias(last.id))
    /\ GetAlias(last.id) \notin DOMAIN instances

\* addContextualBinding(c, x, y) has taken effect: the override of the pair
\* (c, x) is y and the override of every other pair is what it was.
Overrides(c, x, y) ==
    \A c2 \in Ids, x2 \in Ids :
        GetContextualConcrete(x2, c2)' =
            IF c2 = c /\ x2 = x THEN y ELSE GetContextualConcrete(x2, c2)

\* C21: no pair has an override in a new container; a registration of an
\* override for (context, abstract), by addContextualBinding or by give, is
\* never rejected and makes getContextualConcrete(abstract, context) its
\* implementation, whatever was registered for the pair before, and changes
\* the answer for no other pair; flush makes every answer null; no other
\* operation writes to the overrides; and a call of getContextualConcrete
\* returns that answer.
C21_LastOverrideWins ==
    /\ \A c \in Ids, x \in Ids : GetContextualConcrete(x, c) = Null
    /\ [][/\ last'.op \in {"addContextualBinding", "give"}
             => /\ last'.out = "ok"
                /\ \A c \in Ids, x \in Ids, y \in Ids :
                      (last'.id = c /\ last'.arg = <<x, y>>) => Overrides(c, x, y)
          /\ last'.op = "flush"
             => \A c \in Ids, x \in Ids : GetContextualConcrete(x, c)' = Null
          /\ last'.op \notin {"addContextualBinding", "give", "flush"}
             => UNCHANGED contextual
          /\ last'.op = "getContextualConcrete"
             => \A c \in Ids, x \in Ids :
                   (last'.id = c /\ last'.arg = <<x>>)
                   => last'.out = GetContextualConcrete(x, c)]_vars

\* getContextualConcrete has just returned the override of a pair, and
\* returns null for the same two identifiers the other way round.
C21_Witness ==
    /\ last.op = "getContextualConcrete"
    /\ last.out = "a"
    /\ last.arg = <<"L">>
    /\ GetContextualConcrete("L", last.id) = "a"
    /\ GetContextualConcrete(last.id, "L") = Null

\* C22: when(c) and needs(x) change none of the four maps and only hand on
\* c, then c and x, in the builder they return; give(y) on that builder
\* leaves the container as addContextualBinding(c, x, y) called in the
\* place of the chain leaves it, and changes no other map.
C22_FluentAsDirect ==
    [][/\ last'.op = "when"
          => /\ UNCHANGED maps
             /\ builder'.stage = "when"
             /\ builder'.concrete = last'.id
       /\ last'.op = "needs"
          => /\ UNCHANGED maps
             /\ builder.stage = "when"
             /\ builder'.stage = "needs"
             /\ builder'.concrete = builder.concrete
             /\ builder'.abstract = last'.id
       /\ last'.op = "give"
          => /\ UNCHANGED <<bindings, instances, aliases>>
             /\ builder.stage = "needs"
             /\ \A y \in Ids :
                   last'.arg = <<builder.abstract, y>>
                   => /\ contextual' = AddContextualBinding(builder.concrete, builder.abstract, y)
                      /\ Overrides(builder.concrete, builder.abstract, y)
             /\ last'.id = builder.concrete
             /\ last'.arg[1] = builder.abstract]_vars

\* A chain when(A).needs(L).give(a) has just ended and the override is
\* recorded under (A, L).
C22_Witness ==
    /\ last.op = "give"
    /\ last.id = "A"
    /\ last.arg = <<"L", "a">>
    /\ Idle
    /\ contextual = ("A" :> ("L" :> "a"))

\* The cached object under key was handed to instance(), not built by make.
Prebuilt(key) == instances[key].of = "value"

\* C28: every key of the instance cache holds an object registered through
\* instance() or has a binding whose shared flag is true; and a make
\* replaces no cached object and adds to the cache only under identifiers
\* that have a binding whose shared flag is true.
C28_CacheKeysShared ==
    /\ [](\A key \in DOMAIN instances : Prebuilt(key) \/ SharedBound(key))
    /\ [][last'.op = "make"
          => /\ \A key \in DOMAIN instances :
                   key \in DOMAIN instances' /\ instances'[key] = instances[key]
             /\ \A key \in DOMAIN instances' \ DOMAIN instances :
                   SharedBound(key) /\ ~Prebuilt(key)']_vars

\* A make of an identifier whose binding is not shared has just returned
\* and nothing is cached for it, while the cache holds an object that an
\* earlier make built for a shared binding.
C28_Witness ==
    /\ last.op = "make"
    /\ last.out = "ok"
    /\ last.arg = <<>>
    /\ TransientBound(last.id)
    /\ last.id \notin DOMAIN instances
    /\ \E key \in DOMAIN instances : ~Prebuilt(key) /\ SharedBound(key)

Touches(before, after, key) ==
    /\ DOMAIN after \subseteq DOMAIN before \cup {key}
    /\ \A k \in DOMAIN before \ {key} : k \in DOMAIN after /\ after[k] = before[k]

\* C30: has, isShared, getAlias, getContextualConcrete, when and needs
\* change none of the four maps; bind and singleton change only bindings,
\* and there the entry of their identifier at most; instance changes only
\* the instance cache, and there the entry of its identifier; alias changes
\* only aliases, and there the entry of the alias name at most;
\* addContextualBinding, called directly or by give, changes only
\* contextual, and there the overrides of its context; make changes the
\* instance cache at most.
C30_OwnMapOnly ==
    [][/\ last'.op \in {"has", "isShared", "getAlias", "getContextualConcrete",
                        "when", "needs"}
          => UNCHANGED maps
       /\ last'.op \in {"bind", "singleton"}
          => /\ UNCHANGED <<instances, aliases, contextual>>
             /\ Touches(bindings, bindings', last'.id)
       /\ last'.op = "instance"
          => /\ UNCHANGED <<bindings, aliases, contextual>>
             /\ Touches(instances, instances', last'.id)
       /\ last'.op = "alias"
          => /\ UNCHANGED <<bindings, instances, contextual>>
             /\ Touches(aliases, aliases', last'.arg[1])
       /\ last'.op \in {"addContextualBinding", "give"}
          => /\ UNCHANGED <<bindings, instances, aliases>>
             /\ Touches(contextual, contextual', last'.id)
       /\ last'.op = "make"
          => UNCHANGED <<bindings, aliases, contextual>>]_vars

\* A make has just cached an object while each of the other three maps
\* holds an entry.
C30_Witness ==
    /\ last.op = "make"
    /\ last.out = "ok"
    /\ last.id \in DOMAIN instances
    /\ ~Prebuilt(last.id)
    /\ bindings # EmptyMap
    /\ aliases # EmptyMap
    /\ contextual # EmptyMap

\* The invocations a call has added to the record.
Added == SubSeq(calls', Len(calls) + 1, Len(calls'))

\* Those of them the call made itself, not a call nested in client code.
Direct == SelectSeq(Added, LAMBDA e : e.depth = 0)

\* The callbacks of a list, fired in order with the application, the
\* booted flag being flag.
Fired(what, list, flag) ==
    [i \in 1..Len(list) |->
        [what |-> what, fn |-> list[i], provider |-> NoProvider,
         with |-> This, booted |-> flag, depth |-> 0]]

\* The providers of a list, booted in order before the flag is set.
ProvidersBooted(list) ==
    [i \in 1..Len(list) |->
        [what |-> "boot", fn |-> "-", provider |-> list[i],
         with |-> "-", booted |-> FALSE, depth |-> 0]]

\* C23: a boot() that returns on an application not yet booted has invoked,
\* in this order and with nothing else of its own: the booting callbacks
\* registered when it was called, in registration order, each with the
\* application; boot() of the providers, in registration order, those
\* registered when it was called and those registered since by the booting
\* callbacks; then, the booted flag now true, the booted callbacks in
\* registration order, each with the application.  The flag is false at
\* every invocation before and true after the call.
C23_BootOrder ==
    [][(last'.op = "boot" /\ ~booted /\ last'.out = "ok")
          => /\ booted'
             /\ \E k \in Len(serviceProviders)..Len(serviceProviders'),
                   m \in Len(bootedCallbacks)..Len(bootedCallbacks') :
                   Direct = Fired("booting", bootingCallbacks, FALSE)
                            \o ProvidersBooted(SubSeq(serviceProviders', 1, k))
                            \o Fired("booted", SubSeq(bootedCallbacks', 1, m), TRUE)]_vars

\* boot() has just returned after two booting callbacks, the boot of a
\* provider and a booted callback.
C23_Witness ==
    /\ last.op = "boot"
    /\ last.out = "ok"
    /\ booted
    /\ Len(bootingCallbacks) = 2
    /\ bootingCallbacks[1] # bootingCallbacks[2]
    /\ Len(serviceProviders) >= 1
    /\ Len(bootedCallbacks) >= 1
    /\ \E i \in DOMAIN calls : calls[i].what = "booted" /\ calls[i].depth = 0
    /\ \E i \in DOMAIN calls : calls[i].what = "boot" /\ calls[i].depth = 0

\* How many times the application has fired fn as a booted callback.
TimesFired(fn) ==
    Cardinality({i \in DOMAIN calls : calls[i].what = "booted" /\ calls[i].fn = fn})

\* How many times fn has been passed to onBooted.
TimesGiven(fn) ==
    Cardinality({i \in DOMAIN bootedCallbacks : bootedCallbacks[i] = fn})

C25_BootedForGood ==
    /\ ~booted
    /\ [][/\ (last'.op = "boot" /\ last'.out = "ok") => booted'
          /\ booted => booted'
          /\ last'.op = "isBooted" => last'.out = Show(booted) /\ UNCHANGED booted]_vars

\* The application was booted with a provider loaded, and a flush has just
\* emptied the container.
C25_Witness ==
    /\ last.op = "flush"
    /\ booted
    /\ "P" \in loadedProviders
    /\ bindings = EmptyMap
    /\ \E i \in DOMAIN calls : calls[i].what = "register" /\ calls[i].provider.class = "P"

\* The application has run register() of this provider object.
RegisterRan(provider) ==
    \E i \in DOMAIN calls : calls[i].what = "register" /\ calls[i].provider = provider

\* The application holds this provider object in its list, to boot it.
HeldToBoot(provider) ==
    \E i \in DOMAIN serviceProviders : serviceProviders[i] = provider

\* C26: the object a register call returns is the provider whose
\* register() was run and that the application holds in its provider list,
\* also when a provider of the same class was registered before.
C26_ReturnsRegistered ==
    (last.op = "register" /\ last.out = "ok")
    => (RegisterRan(registered) /\ HeldToBoot(registered))

\* Providers are loaded once per class: the application has run register()
\* at most once for each class and holds at most one provider of each.
LoadedOnce(class) ==
    /\ Cardinality({i \in DOMAIN calls :
          calls[i].what = "register" /\ calls[i].provider.class = class}) <= 1
    /\ Cardinality({i \in DOMAIN serviceProviders :
          serviceProviders[i].class = class}) <= 1

\* C27: register() has run at most once per provider class and the provider
\* list holds at most one provider of a class; a register of a provider
\* whose class is loaded already runs nothing and leaves the flag, the two
\* callback lists, the provider list, the loaded set and the container as
\* they are.
C27_LoadedOnce ==
    /\ [](\A class \in ProviderClasses : LoadedOnce(class))
    /\ [][(last'.op = "register" /\ last'.id \in loadedProviders)
             => /\ UNCHANGED <<booted, bootingCallbacks, bootedCallbacks,
                               serviceProviders, loadedProviders, calls>>
                /\ UNCHANGED maps
                /\ last'.out = "ok"]_vars

\* A second provider object of a loaded class has just been passed to
\* register: it is not the one the application holds.
C27_Witness ==
    /\ last.op = "register"
    /\ last.out = "ok"
    /\ last.id \in loadedProviders
    /\ registered.class = last.id
    /\ ~HeldToBoot(registered)
    /\ \E i \in DOMAIN serviceProviders :
          serviceProviders[i].class = last.id /\ RegisterRan(serviceProviders[i])

\* The resolution of one declared dependency of the type under
\* construction, on the heap h: refused when has does not recognise it,
\* else a make with the type on the resolution stack.
Dependency(id, type, h) ==
    IF ~HasIn(id, h.inst) THEN Thrown("UnresolvedDependency", <<id>>, h)
    ELSE Make(id, <<>>, <<type>>, {}, h)

\* The type is its own concrete and make is to construct it: it is no alias
\* name, nothing is cached for it and it is unbound or bound to itself.
BuiltAsItself(type) ==
    /\ type \notin DOMAIN aliases
    /\ type \notin DOMAIN instances
    /\ GetConcrete(type) = type

\* C31: make of a type with two declared dependencies is the resolution of
\* the first on the container as it stands, then the resolution of the
\* second on what the first has left behind, its cached instances
\* included, then one invocation of the constructor, after every
\* construction the dependencies made, with the two values in declaration
\* order; a dependency that fails ends the call with its error, the later
\* ones and the constructor never started.
C31_DepthFirstLeftToRight ==
    \A type \in {"A", "B"} :
        BuiltAsItself(type)
        => LET r == MakeCall(type, <<>>)
               first == Dependency(ParamTypes(type)[1], type, Heap(instances, <<>>, {}))
               second == Dependency(ParamTypes(type)[2], type, first.h) IN
           IF first.out # "ok"
           THEN r.out = first.out /\ r.chain = first.chain /\ r.h = first.h
           ELSE IF second.out # "ok"
           THEN r.out = second.out /\ r.chain = second.chain /\ r.h = second.h
           ELSE /\ r.out = "ok"
                /\ Len(r.h.built) = Len(second.h.built) + 1
                /\ SubSeq(r.h.built, 1, Len(second.h.built)) = second.h.built
                /\ r.h.built[Len(r.h.built)] =
                      [of |-> type, ref |-> r.ret.ref,
                       args |-> <<first.ret.ref, second.ret.ref>>]
                /\ \A key \in DOMAIN second.h.inst :
                      key \in DOMAIN r.h.inst /\ r.h.inst[key] = second.h.inst[key]

\* make(B) has just constructed B from a newly built L and the instance
\* registered for A.
C31_Witness ==
    /\ last.op = "make"
    /\ last.id = "B"
    /\ last.arg = <<>>
    /\ last.out = "ok"
    /\ "A" \in DOMAIN instances
    /\ "B" \notin DOMAIN instances
    /\ GetConcrete("B") = "B"

\* The explicit argument list of the model's calls.
Explicit == <<0>>

\* C32: make(id, params) with a non-empty params, on an identifier that
\* resolves to r: when an instance is cached for r the call returns it,
\* constructs nothing and leaves the cache as it is; when none is cached
\* and the concrete of r is a class, the call succeeds whatever the class
\* declares, by one invocation of the constructor with exactly params and
\* no other construction; and whatever the concrete, unless it is a
\* factory, whose body is the client's, the call does not fail for a
\* dependency that is not bound.
C32_ExplicitArguments ==
    \A id \in Ids :
        GetAlias(id) # Diverges
        => LET r == GetAlias(id)
               call == MakeCall(id, Explicit) IN
           IF r \in DOMAIN instances
           THEN /\ call.out = "ok"
                /\ call.ret = instances[r]
                /\ call.h.built = <<>>
                /\ call.h.inst = instances
           ELSE /\ GetConcrete(r) \notin Factories
                   => call.out # "UnresolvedDependency"
                /\ GetConcrete(r) \in Classes
                   => /\ call.out = "ok"
                      /\ call.h.built =
                            <<[of |-> GetConcrete(r), ref |-> call.ret.ref,
                               args |-> Explicit]>>
                      /\ \A key \in DOMAIN instances :
                            key \in DOMAIN call.h.inst
                            /\ call.h.inst[key] = instances[key]

\* make(A, params) has just succeeded although the container does not
\* recognise B, which A declares.
C32_Witness ==
    /\ last.op = "make"
    /\ last.id = "A"
    /\ last.arg = Explicit
    /\ last.out = "ok"
    /\ "A" \notin DOMAIN instances
    /\ ~Has("B")
    /\ MakeCall("A", <<>>).out = "UnresolvedDependency"

\* The concrete bound to the identifier is a name or a token: another
\* abstract identifier, no factory and no constructible type.
BoundToIdentifier(id) ==
    id \in DOMAIN bindings /\ bindings[id].concrete \in Names \cup Tokens

\* C33: make of an identifier that is no alias name, has no cached instance
\* and is bound to another identifier b ends as make(b) ends when called
\* with the first identifier on the resolution stack, and returns an
\* object of the same class when it returns: an instance of C on a chain
\* a -> b -> C, a CircularDependencyError on a chain that comes back.
C33_ChainedAbstract ==
    \A a \in Ids :
        (BoundToIdentifier(a) /\ a \notin DOMAIN aliases /\ a \notin DOMAIN instances)
        => LET call == MakeCall(a, <<>>)
               next == Make(bindings[a].concrete, <<>>, <<a>>, {},
                            Heap(instances, <<>>, {})) IN
           /\ call.out = next.out
           /\ call.out = "ok" => call.ret.of = next.ret.of

\* A constructible type with no binding, no cached instance and no alias
\* entry of its own.
Unregistered(type) ==
    /\ type \in Classes
    /\ type \notin DOMAIN bindings
    /\ type \notin DOMAIN instances
    /\ type \notin DOMAIN aliases

TimesBooting(fn) ==
    Cardinality({i \in DOMAIN calls : calls[i].what = "booting" /\ calls[i].fn = fn})

\* How many times fn has been passed to booting.
TimesGivenBooting(fn) ==
    Cardinality({i \in DOMAIN bootingCallbacks : bootingCallbacks[i] = fn})

\* How many times the application has called boot() of this provider.
TimesBooted(provider) ==
    Cardinality({i \in DOMAIN calls :
        calls[i].what = "boot" /\ calls[i].provider = provider})

\* C35: over any sequence of operations, calls made from inside callbacks
\* and providers among them, each booting callback has been executed at
\* most once for each time it was passed to booting, and boot() of each
\* provider at most once.
C35_BootRunsOnce ==
    /\ \A fn \in Callbacks : TimesBooting(fn) <= TimesGivenBooting(fn)
    /\ \A i \in DOMAIN serviceProviders : TimesBooted(serviceProviders[i]) <= 1

\* The invocation of register() or boot() of a provider by a call the
\* client made, the booted flag being flag.
ProviderCalled(what, provider, flag) ==
    [what |-> what, fn |-> "-", provider |-> provider,
     with |-> "-", booted |-> flag, depth |-> 0]

\* C36: every boot() of a provider comes after the register() of that
\* provider; a register call that accepts a provider on an application not
\* booted runs its register() and nothing else, its boot() being left to
\* boot(); on a booted application it runs its register() and then its
\* boot(), and then returns it.
C36_RegisterBeforeBoot ==
    /\ [](\A j \in DOMAIN calls :
             calls[j].what = "boot"
             => \E i \in 1..(j - 1) :
                   calls[i].what = "register" /\ calls[i].provider = calls[j].provider)
    /\ [][(last'.op = "register" /\ last'.out = "ok" /\ last'.id \notin loadedProviders)
             => /\ HeldToBoot(registered)'
                /\ ~booted => /\ Direct = <<ProviderCalled("register", registered', FALSE)>>
                              /\ \A i \in DOMAIN calls' :
                                    calls'[i].what = "boot"
                                    => calls'[i].provider # registered'
                /\ booted => Direct = <<ProviderCalled("register", registered', TRUE),
                                        ProviderCalled("boot", registered', TRUE)>>]_vars

\* One provider was registered before boot() and booted by it; a second one
\* has just been registered on the booted application and booted at once.
C36_Witness ==
    /\ last.op = "register"
    /\ last.out = "ok"
    /\ booted
    /\ Len(serviceProviders) = 2
    /\ serviceProviders[2] = registered
    /\ \E i, j, k \in DOMAIN calls :
          /\ i < j /\ j < k
          /\ calls[i] = ProviderCalled("register", serviceProviders[1], FALSE)
          /\ calls[j] = ProviderCalled("boot", serviceProviders[1], FALSE)
          /\ calls[k] = ProviderCalled("register", registered, TRUE)
          /\ calls[k + 1] = ProviderCalled("boot", registered, TRUE)

\* C37: once boot() has returned, boot() of every provider the application
\* holds in its list has been called exactly once, whenever the provider
\* was registered.
C37_AllBootedAfterBoot ==
    (last.op = "boot" /\ last.out = "ok")
    => \A i \in DOMAIN serviceProviders : TimesBooted(serviceProviders[i]) = 1

\* C38: a flush on an Application empties the four maps of the container
\* and leaves the booted flag, the two callback lists, the provider list
\* and the loaded set as they are; a register, right after it, of a
\* provider class loaded before it runs no register() and no boot(), adds
\* no provider and leaves the emptied container empty.
C38_FlushKeepsApplication ==
    [][/\ last'.op = "flush"
          => /\ bindings' = EmptyMap /\ instances' = EmptyMap
             /\ aliases' = EmptyMap /\ contextual' = EmptyMap
             /\ UNCHANGED <<booted, bootingCallbacks, bootedCallbacks,
                            serviceProviders, loadedProviders, calls>>
       /\ (last.op = "flush" /\ last'.op = "register" /\ last'.id \in loadedProviders)
          => /\ last'.out = "ok"
             /\ UNCHANGED <<calls, serviceProviders, loadedProviders, booted>>
             /\ bindings' = EmptyMap]_vars

\* P was registered and bound the name a, a flush removed the binding, and
\* a register(P) has just returned: register() of P has run once and the
\* name is still unbound.
C38_Witness ==
    /\ last.op = "register"
    /\ last.id = "P"
    /\ last.out = "ok"
    /\ "P" \in loadedProviders
    /\ bindings = EmptyMap
    /\ Cardinality({i \in DOMAIN calls :
          calls[i].what = "register" /\ calls[i].provider.class = "P"}) = 1

====
